---- MODULE Spec2Model ----
(***************************************************************************)
(* A model of the safe-http client: the path/query/merge utilities of      *)
(* client-utils.ts, the client tree builder and the request execution      *)
(* pipeline of client.ts.                                                  *)
(*                                                                         *)
(* JavaScript strings whose characters matter (URLs, path templates,       *)
(* parameter names and values) are sequences of tokens, a token being one  *)
(* special character (":", "/", "?", "#", "%", ...) or an atom of          *)
(* unreserved characters.  Other strings (header names, header values,     *)
(* query keys) are TLA+ strings.                                           *)
(***************************************************************************)
EXTENDS Integers, Sequences, FiniteSets, TLC

VARIABLES uIn, uOut, client, call, calls, producer

vars == <<uIn, uOut, client, call, calls, producer>>

----------------------------------------------------------------------------
(* JavaScript values.                                                      *)

Undefined == [t |-> "undefined"]
Null == [t |-> "null"]
Str(s) == [t |-> "string", s |-> s]
Num(n) == [t |-> "number", n |-> n]
Bool(b) == [t |-> "boolean", b |-> b]
Arr(items) == [t |-> "array", items |-> items]
Obj(f) == [t |-> "object", f |-> f]

SeqsUpTo(S, n) == UNION {[1..k -> S] : k \in 0..n}

Idle == [fn |-> "none"]

\* No client is built and no call is made in the specifications of the utilities.
NoPipeline == client = Idle /\ call = Idle /\ calls = Idle /\ producer = Idle

----------------------------------------------------------------------------
(* mergePath                                                               *)

RECURSIVE StripTrailingSlashes(_)
StripTrailingSlashes(s) ==
    IF s # <<>> /\ s[Len(s)] = "/"
    THEN StripTrailingSlashes(SubSeq(s, 1, Len(s) - 1))
    ELSE s

RECURSIVE StripLeadingSlashes(_)
StripLeadingSlashes(s) ==
    IF s # <<>> /\ s[1] = "/"
    THEN StripLeadingSlashes(Tail(s))
    ELSE s

StripOneTrailingSlash(s) ==
    IF s # <<>> /\ s[Len(s)] = "/" THEN SubSeq(s, 1, Len(s) - 1) ELSE s

mergePathKeepsSlashes(base, path) ==
    StripOneTrailingSlash(base) \o <<"/">> \o StripLeadingSlashes(path)

mergePath(base, path) ==
    StripTrailingSlashes(base) \o <<"/">> \o StripLeadingSlashes(path)

MaxBaseLen == 3
MaxPathLen == 3
BaseTokens == {"h", "/"}
PathTokens == {"p", "/"}

InitMergePath ==
    /\ \E b \in SeqsUpTo(BaseTokens, MaxBaseLen), p \in SeqsUpTo(PathTokens, MaxPathLen) :
          uIn = [fn |-> "mergePath", base |-> b, path |-> p]
    /\ uOut = Idle
    /\ NoPipeline

CallMergePath ==
    /\ uIn.fn = "mergePath"
    /\ uOut = Idle
    /\ uOut' = [fn |-> "mergePath", url |-> mergePath(uIn.base, uIn.path)]
    /\ UNCHANGED <<uIn, client, call, calls, producer>>

NextMergePath == CallMergePath

SpecMergePath == InitMergePath /\ [][NextMergePath]_vars

AllSlashes(s) == \A i \in 1..Len(s) : s[i] = "/"

\* C9: the URL is baseUrl without its trailing slashes, exactly one "/", then
\* the path without its leading slashes, for any number of either.
C9_MergePathJoinsOnce ==
    uOut.fn = "mergePath" =>
        \E n \in 0..Len(uIn.base), m \in 0..Len(uIn.path) :
            LET b == SubSeq(uIn.base, 1, Len(uIn.base) - n)
                p == SubSeq(uIn.path, m + 1, Len(uIn.path))
            IN  /\ AllSlashes(SubSeq(uIn.base, Len(uIn.base) - n + 1, Len(uIn.base)))
                /\ AllSlashes(SubSeq(uIn.path, 1, m))
                /\ b = <<>> \/ b[Len(b)] # "/"
                /\ p = <<>> \/ p[1] # "/"
                /\ uOut.url = b \o <<"/">> \o p
                /\ Len(uOut.url) = Len(b) + 1 + Len(p)

C9_Witness ==
    /\ uOut.fn = "mergePath"
    /\ uIn.base = <<"h", "/", "/">>
    /\ uIn.path = <<"/", "/", "p">>
    /\ uOut.url = <<"h", "/", "p">>

----------------------------------------------------------------------------
(* replaceUrlParams                                                        *)
(* An object whose entry order matters (params, query) is the sequence of  *)
(* its entries [key, value], keys distinct, in Object.entries order.       *)

DistinctKeys(entries) ==
    \A i, j \in 1..Len(entries) : entries[i].key = entries[j].key => i = j

\* The tokens encodeURIComponent escapes, with their percent codes.
PercentCode ==
    (":" :> <<"%", "3A">>) @@ ("/" :> <<"%", "2F">>) @@ ("?" :> <<"%", "3F">>)
    @@ ("#" :> <<"%", "23">>) @@ ("$" :> <<"%", "24">>) @@ ("%" :> <<"%", "25">>)
    @@ ("&" :> <<"%", "26">>) @@ ("=" :> <<"%", "3D">>) @@ (" " :> <<"%", "20">>)

RECURSIVE encodeURIComponent(_)
encodeURIComponent(s) ==
    IF s = <<>> THEN <<>>
    ELSE (IF s[1] \in DOMAIN PercentCode THEN PercentCode[s[1]] ELSE <<s[1]>>)
         \o encodeURIComponent(Tail(s))

\* The lookahead (?=\/|$|\?|#) of the pattern.
PlaceholderEnd == {"/", "?", "#"}

\* new RegExp(`:${key}(?=\/|$|\\?|#)`) matches at position i of s.
MatchAt(s, i, key) ==
    /\ s[i] = ":"
    /\ i + Len(key) <= Len(s)
    /\ SubSeq(s, i + 1, i + Len(key)) = key
    /\ i + Len(key) = Len(s) \/ s[i + Len(key) + 1] \in PlaceholderEnd

\* result.replace(paramPattern, rep) with the 'g' flag: left to right,
\* matches do not overlap.
RECURSIVE ReplaceFrom(_, _, _, _)
ReplaceFrom(s, i, key, rep) ==
    IF i > Len(s) THEN <<>>
    ELSE IF MatchAt(s, i, key)
         THEN rep \o ReplaceFrom(s, i + Len(key) + 1, key, rep)
         ELSE <<s[i]>> \o ReplaceFrom(s, i + 1, key, rep)

\* The loop of replaceUrlParams over Object.entries(params), from entry k on.
RECURSIVE ReplaceEntries(_, _, _)
ReplaceEntries(result, entries, k) ==
    IF k > Len(entries) THEN result
    ELSE IF entries[k].value # Undefined
         THEN ReplaceEntries(
                  ReplaceFrom(result, 1, entries[k].key,
                              encodeURIComponent(entries[k].value.s)),
                  entries, k + 1)
         ELSE ReplaceEntries(result, entries, k + 1)

replaceUrlParams(urlString, params) == ReplaceEntries(urlString, params, 1)

MaxTemplateLen == 4
MaxParams == 2
TemplateTokens == {":", "/", "x", "y", "1"}
ParamKeys == {<<"x">>, <<"y">>, <<"x", "1">>}
ParamValues == {Undefined, Str(<<"1">>), Str(<<"/">>)}
ParamEntries ==
    {e \in SeqsUpTo([key : ParamKeys, value : ParamValues], MaxParams) : DistinctKeys(e)}

InitUrlParams ==
    /\ \E u \in SeqsUpTo(TemplateTokens, MaxTemplateLen), p \in ParamEntries :
          uIn = [fn |-> "replaceUrlParams", url |-> u, params |-> p]
    /\ uOut = Idle
    /\ NoPipeline

CallReplaceUrlParams ==
    /\ uIn.fn = "replaceUrlParams"
    /\ uOut = Idle
    /\ uOut' = [fn |-> "replaceUrlParams", url |-> replaceUrlParams(uIn.url, uIn.params)]
    /\ UNCHANGED <<uIn, client, call, calls, producer>>

NextUrlParams == CallReplaceUrlParams

SpecUrlParams == InitUrlParams /\ [][NextUrlParams]_vars

\* The substitution the claim describes, decided on the template alone: a
\* placeholder is ":" and a params key with a defined value, followed by
\* "/", "?", "#" or the end.
PlaceholderAt(s, i, params) ==
    {k \in 1..Len(params) :
        params[k].value # Undefined /\ MatchAt(s, i, params[k].key)}

RECURSIVE SubstituteFrom(_, _, _)
SubstituteFrom(s, i, params) ==
    IF i > Len(s) THEN <<>>
    ELSE IF PlaceholderAt(s, i, params) # {}
         THEN LET k == CHOOSE k \in PlaceholderAt(s, i, params) : TRUE
              IN  encodeURIComponent(params[k].value.s)
                  \o SubstituteFrom(s, i + Len(params[k].key) + 1, params)
         ELSE <<s[i]>> \o SubstituteFrom(s, i + 1, params)

Reverse(s) == [i \in 1..Len(s) |-> s[Len(s) + 1 - i]]

\* C7: replaceUrlParams replaces exactly the bounded placeholders of the
\* template whose name is a params key with a defined value, by the encoded
\* value, and the result does not depend on the order of the params keys.
C7_ExactPlaceholders ==
    uOut.fn = "replaceUrlParams" =>
        /\ uOut.url = SubstituteFrom(uIn.url, 1, uIn.params)
        /\ uOut.url = replaceUrlParams(uIn.url, Reverse(uIn.params))

----------------------------------------------------------------------------
(* buildSearchParams                                                       *)

Digits == <<"0", "1", "2", "3", "4", "5", "6", "7", "8", "9">>

\* String(value); numbers are single digits, array elements are scalars.
RECURSIVE JoinComma(_)
ScalarString(v) ==
    CASE v.t = "string" -> v.s
      [] v.t = "number" -> <<Digits[v.n + 1]>>
      [] v.t = "boolean" -> IF v.b THEN <<"true">> ELSE <<"false">>
      [] v.t = "null" -> <<"null">>
      [] v.t = "undefined" -> <<"undefined">>
      [] v.t = "object" -> <<"[object Object]">>
      [] OTHER -> <<>>

JoinComma(items) ==
    IF items = <<>> THEN <<>>
    ELSE (IF items[1].t \in {"null", "undefined"} THEN <<>> ELSE ScalarString(items[1]))
         \o (IF Len(items) > 1 THEN <<",">> ELSE <<>>)
         \o JoinComma(Tail(items))

String(v) == IF v.t = "array" THEN JoinComma(v.items) ELSE ScalarString(v)

\* URLSearchParams is the list of its [key, value] pairs.
SearchParamsAppend(sp, key, value) == Append(sp, [key |-> key, value |-> value])

\* URLSearchParams.set: the first pair of the key takes the value, the other
\* pairs of the key are removed; without such a pair the pair is appended.
SearchParamsSet(sp, key, value) ==
    IF \E i \in 1..Len(sp) : sp[i].key = key
    THEN LET first == CHOOSE i \in 1..Len(sp) :
                          sp[i].key = key /\ \A j \in 1..(i - 1) : sp[j].key # key
             keep == SelectSeq([i \in 1..Len(sp) |-> [i |-> i, p |-> sp[i]]],
                               LAMBDA e : e.p.key # key \/ e.i = first)
         IN  [i \in 1..Len(keep) |->
                 IF keep[i].i = first THEN [key |-> key, value |-> value] ELSE keep[i].p]
    ELSE Append(sp, [key |-> key, value |-> value])

\* The inner loop over the items of an array value, with set in place of append.
RECURSIVE SetItems(_, _, _)
SetItems(sp, key, items) ==
    IF items = <<>> THEN sp
    ELSE SetItems(
             IF items[1] # Undefined /\ items[1] # Null
             THEN SearchParamsSet(sp, key, String(items[1]))
             ELSE sp,
             key, Tail(items))

\* The inner loop over the items of an array value.
RECURSIVE AppendItems(_, _, _)
AppendItems(sp, key, items) ==
    IF items = <<>> THEN sp
    ELSE AppendItems(
             IF items[1] # Undefined /\ items[1] # Null
             THEN SearchParamsAppend(sp, key, String(items[1]))
             ELSE sp,
             key, Tail(items))

\* The loop of buildSearchParams over Object.entries(query), from entry k on.
RECURSIVE SearchParamsFrom(_, _, _)
SearchParamsFrom(sp, entries, k) ==
    IF k > Len(entries) THEN sp
    ELSE LET key == entries[k].key
             value == entries[k].value
         IN  IF value = Undefined \/ value = Null
             THEN SearchParamsFrom(sp, entries, k + 1)
             ELSE IF value.t = "array"
                  THEN SearchParamsFrom(AppendItems(sp, key, value.items), entries, k + 1)
                  ELSE SearchParamsFrom(SearchParamsSet(sp, key, String(value)), entries, k + 1)

buildSearchParams(query) == SearchParamsFrom(<<>>, query, 1)

MaxQuery == 2
MaxArrayLen == 2
QueryKeys == {<<"page">>, <<"tags">>}
QueryItems == {Null, Str(<<"a">>), Str(<<"b">>)}
QueryValues ==
    {Undefined, Null, Num(1)} \cup {Arr(a) : a \in SeqsUpTo(QueryItems, MaxArrayLen)}
QueryEntries ==
    {e \in SeqsUpTo([key : QueryKeys, value : QueryValues], MaxQuery) : DistinctKeys(e)}

InitSearchParams ==
    /\ \E q \in QueryEntries : uIn = [fn |-> "buildSearchParams", query |-> q]
    /\ uOut = Idle
    /\ NoPipeline

CallBuildSearchParams ==
    /\ uIn.fn = "buildSearchParams"
    /\ uOut = Idle
    /\ uOut' = [fn |-> "buildSearchParams", pairs |-> buildSearchParams(uIn.query)]
    /\ UNCHANGED <<uIn, client, call, calls, producer>>

NextSearchParams == CallBuildSearchParams

SpecSearchParams == InitSearchParams /\ [][NextSearchParams]_vars

\* The pairs one entry contributes: none for undefined or null, one per
\* array element (per element that is not undefined or null when onlyDefined),
\* one for any other value.
DefinedItem(item) == item # Undefined /\ item # Null

EntryPairs(e, onlyDefined) ==
    IF e.value = Undefined \/ e.value = Null THEN <<>>
    ELSE IF e.value.t = "array"
         THEN LET kept == IF onlyDefined THEN SelectSeq(e.value.items, DefinedItem)
                          ELSE e.value.items
              IN  [i \in 1..Len(kept) |-> [key |-> e.key, value |-> String(kept[i])]]
         ELSE <<[key |-> e.key, value |-> String(e.value)]>>

RECURSIVE QueryPairs(_, _)
QueryPairs(entries, onlyDefined) ==
    IF entries = <<>> THEN <<>>
    ELSE EntryPairs(entries[1], onlyDefined) \o QueryPairs(Tail(entries), onlyDefined)

\* C8 as stated: the pairs follow the entries in entry order; undefined and
\* null values give no pair, an array gives exactly one pair per element in
\* array order, any other value gives one pair with its string form.
C8_OnePairPerElement ==
    uOut.fn = "buildSearchParams" => uOut.pairs = QueryPairs(uIn.query, FALSE)

\* C8 amended: an array gives one pair per element that is neither undefined
\* nor null, in array order; the rest as stated.
C8_OnePairPerDefinedElement ==
    uOut.fn = "buildSearchParams" => uOut.pairs = QueryPairs(uIn.query, TRUE)

C8_Witness ==
    /\ uOut.fn = "buildSearchParams"
    /\ uIn.query = << [key |-> <<"tags">>, value |-> Arr(<<Str(<<"a">>), Null>>)],
                      [key |-> <<"page">>, value |-> Undefined] >>
    /\ uOut.pairs = << [key |-> <<"tags">>, value |-> <<"a">>] >>

----------------------------------------------------------------------------
(* isObject, deepMerge                                                     *)
(* An object whose entry order does not matter is Obj(f), f the function   *)
(* from its keys to their values.                                          *)

isObject(value) == value.t = "object"

\* { ...target }: the own enumerable properties of target (none for null,
\* undefined and the empty array).
Spread(target) == IF isObject(target) THEN target.f ELSE <<>>

\* The keys that `for (const key in source)` visits.
KeysIn(source) == IF isObject(source) THEN DOMAIN source.f ELSE {}

Put(f, key, value) == [k \in DOMAIN f \cup {key} |-> IF k = key THEN value ELSE f[k]]

\* A merge that assigns every key of source, nested maps included.
RECURSIVE FlatMergeKeys(_, _, _)
FlatMergeKeys(merged, source, keys) ==
    IF keys = {} THEN merged
    ELSE LET key == CHOOSE k \in keys : TRUE
         IN  FlatMergeKeys(Put(merged, key, source.f[key]), source, keys \ {key})

flatMerge(target, source) ==
    IF ~isObject(target) /\ ~isObject(source) THEN source
    ELSE Obj(FlatMergeKeys(Spread(target), source, KeysIn(source)))

RECURSIVE deepMerge(_, _)
RECURSIVE MergeKeys(_, _, _)
\* The for-in loop of deepMerge over the keys left to visit.
MergeKeys(merged, source, keys) ==
    IF keys = {} THEN merged
    ELSE LET key == CHOOSE k \in keys : TRUE
             value == source.f[key]
         IN  MergeKeys(
                 IF key \in DOMAIN merged /\ isObject(merged[key]) /\ isObject(value)
                 THEN Put(merged, key, deepMerge(merged[key], value))
                 ELSE Put(merged, key, value),
                 source, keys \ {key})

deepMerge(target, source) ==
    IF ~isObject(target) /\ ~isObject(source) THEN source
    ELSE Obj(MergeKeys(Spread(target), source, KeysIn(source)))

MergeKeyNames == {"a", "b"}
MergeScalars == {Str(<<"1">>), Str(<<"2">>), Arr(<<>>)}
MapsOver(values) == UNION {[D -> values] : D \in SUBSET MergeKeyNames}
InnerMaps == {Obj(f) : f \in MapsOver(MergeScalars)}
OptionMaps == {Obj(f) : f \in MapsOver(MergeScalars \cup InnerMaps)}

InitDeepMerge ==
    /\ \E b \in OptionMaps, o \in OptionMaps :
          uIn = [fn |-> "deepMerge", target |-> b, source |-> o]
    /\ uOut = Idle
    /\ NoPipeline

CallDeepMerge ==
    /\ uIn.fn = "deepMerge"
    /\ uOut = Idle
    /\ uOut' = [fn |-> "deepMerge", merged |-> deepMerge(uIn.target, uIn.source)]
    /\ UNCHANGED <<uIn, client, call, calls, producer>>

NextDeepMerge == CallDeepMerge

SpecDeepMerge == InitDeepMerge /\ [][NextDeepMerge]_vars

\* merged is the key-by-key merge of the maps base and perCall.
RECURSIVE MergedKeyByKey(_, _, _)
MergedKeyByKey(merged, base, perCall) ==
    /\ isObject(merged)
    /\ DOMAIN merged.f = DOMAIN base.f \cup DOMAIN perCall.f
    /\ \A k \in DOMAIN merged.f :
          IF k \in DOMAIN base.f /\ k \in DOMAIN perCall.f
             /\ isObject(base.f[k]) /\ isObject(perCall.f[k])
          THEN MergedKeyByKey(merged.f[k], base.f[k], perCall.f[k])
          ELSE IF k \in DOMAIN perCall.f
               THEN merged.f[k] = perCall.f[k]
               ELSE merged.f[k] = base.f[k]

\* C6: deepMerge(base, perCall) has the union of the keys; where both values
\* are maps it is their recursive merge, at any other key of perCall it is the
\* perCall value, at a key of base alone it is the base value.
C6_DeepMergeKeyByKey ==
    uOut.fn = "deepMerge" => MergedKeyByKey(uOut.merged, uIn.target, uIn.source)

C6_Witness ==
    /\ uOut.fn = "deepMerge"
    /\ uIn.target = Obj("a" :> Obj("b" :> Str(<<"2">>)))
    /\ uIn.source = Obj("a" :> Obj("a" :> Str(<<"1">>)))
    /\ uOut.merged = Obj("a" :> Obj(("a" :> Str(<<"1">>)) @@ ("b" :> Str(<<"2">>))))

----------------------------------------------------------------------------
(* isRouteDefinition, createEndpoint, createClientFromRouteMap             *)
(* A RouteMap and a route definition are JavaScript objects; a callable is *)
(* a value of type "function".                                             *)

Fn(name) == [t |-> "function", name |-> name]

typeof(value) ==
    CASE value.t \in {"object", "array", "null"} -> "object"
      [] value.t = "endpoint" -> "function"
      [] OTHER -> value.t

Has(value, key) == isObject(value) /\ key \in DOMAIN value.f

\* value[key], undefined when the property is missing.
Get(value, key) == IF Has(value, key) THEN value.f[key] ELSE Undefined

isRouteDefinition(value) ==
    /\ isObject(value)
    /\ typeof(Get(value, "path")) = "string"
    /\ typeof(Get(value, "method")) = "string"
    /\ typeof(Get(value, "responses")) = "object"

\* The closure createEndpoint returns: it captures its three arguments.
createEndpoint(baseUrl, route, baseOptions) ==
    [t |-> "endpoint", baseUrl |-> baseUrl, route |-> route, baseOptions |-> baseOptions]

RECURSIVE createClientFromRouteMap(_, _, _)
createClientFromRouteMap(routeMap, baseUrl, baseOptions) ==
    LET kept == {k \in DOMAIN routeMap.f :
                    isRouteDefinition(routeMap.f[k]) \/ isObject(routeMap.f[k])}
    IN  Obj([k \in kept |->
                IF isRouteDefinition(routeMap.f[k])
                THEN createEndpoint(baseUrl, routeMap.f[k], baseOptions)
                ELSE createClientFromRouteMap(routeMap.f[k], baseUrl, baseOptions)])

\* httpClient: baseUrl defaults to '', headers and fetch are taken out of the
\* config, the rest is the passthrough init.
httpClient(routeMap, config) ==
    LET baseUrl == IF Has(config, "baseUrl") /\ Get(config, "baseUrl") # Undefined
                   THEN Get(config, "baseUrl").s ELSE <<>>
        rest == DOMAIN config.f \ {"baseUrl", "headers", "fetch"}
        baseOptions == Obj(("headers" :> Get(config, "headers"))
                           @@ ("fetch" :> Get(config, "fetch"))
                           @@ ("init" :> Obj([k \in rest |-> config.f[k]])))
    IN  createClientFromRouteMap(routeMap, baseUrl, baseOptions)

RouteOf(path, method) ==
    Obj(("path" :> Str(path)) @@ ("method" :> Str(<<method>>)) @@ ("responses" :> Obj(<<>>)))

TreeKeys == {"a", "b"}
InnerTreeKeys == {"c"}
TreeLeaves ==
    { RouteOf(<<"/", "users">>, "get"), RouteOf(<<"/", "users">>, "post"),
      Str(<<"users">>),
      Obj(("path" :> Str(<<"/", "users">>)) @@ ("method" :> Str(<<"get">>))) }
TreesOver(keys, values) == {Obj(f) : f \in UNION {[D -> values] : D \in SUBSET keys}}
RouteMaps ==
    TreesOver(TreeKeys,
        TreeLeaves \cup TreesOver(TreeKeys,
            TreeLeaves \cup TreesOver(InnerTreeKeys, TreeLeaves)))

InitTree ==
    /\ \E m \in RouteMaps : uIn = [fn |-> "httpClient", routeMap |-> m]
    /\ uOut = Idle
    /\ NoPipeline

CallHttpClient ==
    /\ uIn.fn = "httpClient"
    /\ uOut = Idle
    /\ uOut' = [fn |-> "httpClient",
                client |-> httpClient(uIn.routeMap, Obj("baseUrl" :> Str(<<"api">>))),
                use |-> Idle]
    /\ UNCHANGED <<uIn, client, call, calls, producer>>

NotAFunction == [name |-> "TypeError", message |-> "is not a function"]

\* client[key](): what the first use of an entry of the RouteMap gives the
\* caller.  The client has a callable at the key, a sub-tree (calling it
\* throws the TypeError of JavaScript) or nothing (the same TypeError).
use(built) ==
    IF built.t = "endpoint" THEN [kind |-> "request", route |-> built.route]
    ELSE [kind |-> "throw", error |-> NotAFunction]

\* The caller uses, for the first time, the client at a top-level entry of
\* the RouteMap.
UseEntry ==
    /\ uOut.fn = "httpClient"
    /\ uOut.use = Idle
    /\ \E key \in DOMAIN uIn.routeMap.f :
          uOut' = [uOut EXCEPT !.use = [key |-> key,
                                        outcome |-> use(Get(uOut.client, key))]]
    /\ UNCHANGED <<uIn, client, call, calls, producer>>

NextTree == CallHttpClient \/ UseEntry

SpecTree == InitTree /\ [][NextTree]_vars

NestedMap(value) == isObject(value) /\ ~isRouteDefinition(value)

\* The value of the RouteMap at a key path below nested maps.
RECURSIVE RouteMapAt(_, _)
RouteMapAt(tree, path) ==
    IF path = <<>> THEN tree
    ELSE IF NestedMap(tree) /\ Has(tree, path[1]) THEN RouteMapAt(tree.f[path[1]], Tail(path))
    ELSE Undefined

\* client.k1.k2...: the value of the client at a key path.
RECURSIVE ClientAt(_, _)
ClientAt(tree, path) ==
    IF path = <<>> THEN tree
    ELSE IF Has(tree, path[1]) THEN ClientAt(tree.f[path[1]], Tail(path))
    ELSE Undefined

\* What the type HttpRouteDefinition asks of a value at run time.
RouteDefinitionShaped(value) ==
    /\ value.t = "object"
    /\ {"path", "method", "responses"} \subseteq DOMAIN value.f
    /\ value.f["path"].t = "string"
    /\ value.f["method"].t = "string"
    /\ value.f["responses"].t = "object"

KeyPaths == {p \in SeqsUpTo(TreeKeys \cup InnerTreeKeys, 3) : p # <<>>}

\* The client mirrors the RouteMap: a callable exactly at the route
\* definitions, bound to that definition, and a sub-tree exactly at the
\* nested maps, at every depth.
ClientMirrorsRouteMap ==
    uOut.fn = "httpClient" =>
        \A p \in KeyPaths :
            LET source == RouteMapAt(uIn.routeMap, p)
                built == ClientAt(uOut.client, p)
            IN  /\ built.t = "endpoint" <=> RouteDefinitionShaped(source)
                /\ built.t = "endpoint" => built.route = source
                /\ isObject(built) <=> (isObject(source) /\ ~RouteDefinitionShaped(source))

MirrorWitness ==
    /\ uOut.fn = "httpClient"
    /\ RouteDefinitionShaped(RouteMapAt(uIn.routeMap, <<"a", "b", "c">>))
    /\ ClientAt(uOut.client, <<"a", "b", "c">>).t = "endpoint"

----------------------------------------------------------------------------
(* createParseFn                                                           *)
(* A validator is the set of capabilities createParseFn looks for: being   *)
(* callable, the "~standard" property, and the methods it exposes.         *)

Validator(caps) == [t |-> "validator", caps |-> caps]

\* A createParseFn that looks for parse before parseAsync.
createParseFnSyncFirst(schema) ==
    IF schema = Null THEN "identity"
    ELSE LET caps == schema.caps
             isStandardSchema == "~standard" \in caps
         IN  IF "callable" \in caps /\ "assert" \in caps THEN "assert"
             ELSE IF "callable" \in caps /\ ~isStandardSchema THEN "function"
             ELSE IF "parse" \in caps THEN "parse"
             ELSE IF "parseAsync" \in caps THEN "parseAsync"
             ELSE IF "validateSync" \in caps THEN "validateSync"
             ELSE IF "create" \in caps THEN "create"
             ELSE IF "assert" \in caps THEN "assertWrap"
             ELSE IF isStandardSchema THEN "standard"
             ELSE "error"

\* A createParseFn that passes the input through when it finds no method.
createParseFnLenient(schema) ==
    IF schema = Null THEN "identity"
    ELSE LET caps == schema.caps
             isStandardSchema == "~standard" \in caps
         IN  IF "callable" \in caps /\ "assert" \in caps THEN "assert"
             ELSE IF "callable" \in caps /\ ~isStandardSchema THEN "function"
             ELSE IF "parseAsync" \in caps THEN "parseAsync"
             ELSE IF "parse" \in caps THEN "parse"
             ELSE IF "validateSync" \in caps THEN "validateSync"
             ELSE IF "create" \in caps THEN "create"
             ELSE IF "assert" \in caps THEN "assertWrap"
             ELSE IF isStandardSchema THEN "standard"
             ELSE "identity"

\* The convention createParseFn returns a parse function for, "error" when it
\* throws "Could not find a compatible parser method".
createParseFn(schema) ==
    IF schema = Null THEN "identity"
    ELSE LET caps == schema.caps
             isStandardSchema == "~standard" \in caps
         IN  IF "callable" \in caps /\ "assert" \in caps THEN "assert"
             ELSE IF "callable" \in caps /\ ~isStandardSchema THEN "function"
             ELSE IF "parseAsync" \in caps THEN "parseAsync"
             ELSE IF "parse" \in caps THEN "parse"
             ELSE IF "validateSync" \in caps THEN "validateSync"
             ELSE IF "create" \in caps THEN "create"
             ELSE IF "assert" \in caps THEN "assertWrap"
             ELSE IF isStandardSchema THEN "standard"
             ELSE "error"

ConfigError == [name |-> "Error", message |-> "Could not find a compatible parser method"]
ValidationError(slot) == [name |-> "ValidationError", message |-> slot]
StandardSchemaV1Error(issues) == [name |-> "StandardSchemaV1Error", message |-> issues]

NoReply == [kind |-> "none"]

\* What the underlying validator may answer to the parse function of a
\* convention: a returned value (the input or a coerced value), a thrown
\* error, or the result object {value, issues} of the "~standard" validate
\* function, with issues undefined, an empty array or an array of issues.
Issue == Str(<<"invalid">>)

ValidatorReplies(convention, input, coerced, slot) ==
    CASE convention = "identity" -> {NoReply}
      [] convention = "standard" ->
            { [kind |-> "result", issues |-> Undefined, value |-> input],
              [kind |-> "result", issues |-> Undefined, value |-> coerced],
              [kind |-> "result", issues |-> Arr(<<>>), value |-> input],
              [kind |-> "result", issues |-> Arr(<<Issue>>), value |-> Undefined],
              [kind |-> "throw", error |-> ValidationError(slot)] }
      [] OTHER ->
            { [kind |-> "return", value |-> input],
              [kind |-> "return", value |-> coerced],
              [kind |-> "throw", error |-> ValidationError(slot)] }

\* JavaScript truthiness.
Truthy(value) ==
    CASE value.t \in {"undefined", "null"} -> FALSE
      [] value.t = "string" -> value.s # <<>>
      [] value.t = "number" -> value.n # 0
      [] value.t = "boolean" -> value.b
      [] OTHER -> TRUE

\* A parse function that rewraps what the validator throws.
ParseWrapping(convention, input, reply) ==
    CASE convention = "identity" -> [ok |-> TRUE, value |-> input]
      [] reply.kind = "throw" ->
            [ok |-> FALSE, error |-> [name |-> "Error", message |-> "Validation failed"],
             thrown |-> reply.error]
      [] convention = "assertWrap" -> [ok |-> TRUE, value |-> input]
      [] convention = "standard" ->
            IF Truthy(reply.issues)
            THEN [ok |-> FALSE, error |-> StandardSchemaV1Error(reply.issues),
                  thrown |-> Undefined]
            ELSE [ok |-> TRUE, value |-> reply.value]
      [] OTHER -> [ok |-> TRUE, value |-> reply.value]

\* The parse function applied to input, given the validator's answer:
\* [ok, value] when it returns, [ok, error, thrown] when it throws, thrown
\* being the error the validator itself threw (Undefined when it threw none).
Parse(convention, input, reply) ==
    CASE convention = "identity" -> [ok |-> TRUE, value |-> input]
      [] reply.kind = "throw" -> [ok |-> FALSE, error |-> reply.error, thrown |-> reply.error]
      [] convention = "assertWrap" -> [ok |-> TRUE, value |-> input]
      [] convention = "standard" ->
            IF Truthy(reply.issues)
            THEN [ok |-> FALSE, error |-> StandardSchemaV1Error(reply.issues),
                  thrown |-> Undefined]
            ELSE [ok |-> TRUE, value |-> reply.value]
      [] OTHER -> [ok |-> TRUE, value |-> reply.value]

\* The properties createParseFn looks at, and one it does not know.
Capabilities ==
    {"callable", "~standard", "assert", "parseAsync", "parse", "validateSync", "create",
     "safeParse"}

Schemas == {Null} \cup {Validator(caps) : caps \in SUBSET Capabilities}

ParserInput == Obj("id" :> Str(<<"5">>))
ParserCoerced == Obj("id" :> Num(5))

\* createParseFn(schema) throwing, as the outcome of a parse.
Unparsable == [ok |-> FALSE, error |-> ConfigError, thrown |-> Undefined]

InitParser ==
    /\ \E schema \in Schemas :
          uIn = [fn |-> "createParseFn", schema |-> schema, input |-> ParserInput]
    /\ uOut = Idle
    /\ NoPipeline

\* createParseFn(schema)(input), the validator answering with reply.
CallCreateParseFn ==
    /\ uIn.fn = "createParseFn"
    /\ uOut = Idle
    /\ LET convention == createParseFn(uIn.schema)
       IN  \E reply \in (IF convention = "error" THEN {NoReply}
                         ELSE ValidatorReplies(convention, uIn.input, ParserCoerced, "input")) :
              uOut' = [ fn |-> "createParseFn",
                        convention |-> convention,
                        reply |-> reply,
                        outcome |-> IF convention = "error" THEN Unparsable
                                    ELSE Parse(convention, uIn.input, reply) ]
    /\ UNCHANGED <<uIn, client, call, calls, producer>>

NextParser == CallCreateParseFn

SpecParser == InitParser /\ [][NextParser]_vars

\* The conventions in the order of precedence, and what makes a validator
\* value match each.
Precedence ==
    <<"identity", "assert", "function", "parseAsync", "parse", "validateSync", "create",
      "assertWrap", "standard">>

Exposes(schema, cap) == schema # Null /\ cap \in schema.caps

Matches(schema, convention) ==
    CASE convention = "identity" -> schema = Null
      [] convention = "assert" -> Exposes(schema, "callable") /\ Exposes(schema, "assert")
      [] convention = "function" ->
            Exposes(schema, "callable") /\ ~Exposes(schema, "~standard")
      [] convention = "assertWrap" -> Exposes(schema, "assert")
      [] convention = "standard" -> Exposes(schema, "~standard")
      [] OTHER -> Exposes(schema, convention)

FirstMatch(schema) ==
    LET hits == {k \in 1..Len(Precedence) : Matches(schema, Precedence[k])}
    IN  IF hits = {} THEN "error"
        ELSE Precedence[CHOOSE k \in hits : \A j \in hits : k <= j]

\* C11: createParseFn uses the first convention of the precedence order that
\* the validator value matches, whatever else the value exposes; parseAsync
\* wins over parse, and a callable with the "~standard" marker is never used
\* as a plain function.
C11_FirstMatchWins ==
    uOut.fn = "createParseFn" =>
        /\ uOut.convention = FirstMatch(uIn.schema)
        /\ (Exposes(uIn.schema, "parseAsync") /\ Exposes(uIn.schema, "parse"))
              => uOut.convention # "parse"
        /\ Exposes(uIn.schema, "~standard") => uOut.convention # "function"

C11_Witness ==
    /\ uOut.fn = "createParseFn"
    /\ uIn.schema = Validator({"callable", "~standard", "parse", "parseAsync", "create"})
    /\ uOut.convention = "parseAsync"
    /\ uOut.outcome = [ok |-> TRUE, value |-> ParserCoerced]

NonEmpty(value) == value.t = "array" /\ value.items # <<>>

\* C12: through the "~standard" protocol the parse function throws a
\* StandardSchemaV1Error wrapping the issues exactly when the validate result
\* has a non-empty collection of issues, and returns the value of the result
\* when the issues are absent or empty.
C12_ThrowsOnNonEmptyIssues ==
    (uOut.fn = "createParseFn" /\ uOut.convention = "standard" /\ uOut.reply.kind = "result") =>
        IF NonEmpty(uOut.reply.issues)
        THEN uOut.outcome = [ok |-> FALSE, error |-> StandardSchemaV1Error(uOut.reply.issues),
                             thrown |-> Undefined]
        ELSE uOut.outcome = [ok |-> TRUE, value |-> uOut.reply.value]

----------------------------------------------------------------------------
(* getContentType, serializeBody, Headers                                  *)

\* An instance of a built-in class is an object with no own properties.
Instance(class) == [t |-> "object", f |-> <<>>, class |-> class]
instanceof(value, class) ==
    value.t = "object" /\ "class" \in DOMAIN value /\ value.class = class

\* The strings JSON.parse accepts, among those the model uses.
JsonTexts == {<<"{}">>, <<"1">>}

\* JSON.stringify(value): a string, the JSON text of value.
JSONstringify(value) == [t |-> "string", s |-> <<"JSON">>, of |-> value]

getContentType(body) ==
    IF body.t = "string"
    THEN (IF body.s \in JsonTexts THEN Str(<<"application/json">>) ELSE Str(<<"text/plain">>))
    ELSE IF instanceof(body, "FormData") THEN Undefined
    ELSE IF instanceof(body, "URLSearchParams")
         THEN Str(<<"application/x-www-form-urlencoded">>)
    ELSE IF isObject(body) THEN Str(<<"application/json">>)
    ELSE Undefined

serializeBody(body) ==
    IF body = Undefined \/ body = Null THEN Undefined
    ELSE IF \/ body.t = "string"
            \/ \E c \in {"FormData", "URLSearchParams", "Blob", "ArrayBuffer"} :
                  instanceof(body, c)
         THEN body
    ELSE IF isObject(body) \/ body.t = "array" THEN JSONstringify(body)
    ELSE Str(String(body))

\* Header names are case-insensitive: Headers stores them in lower case.
LowerCase ==
    ("A" :> "a") @@ ("a" :> "a") @@ ("B" :> "b") @@ ("b" :> "b")
    @@ ("Content-Type" :> "content-type") @@ ("content-type" :> "content-type")

\* A Headers object is the function from its lower-case names to values.
HeadersSet(headers, name, value) == Put(headers, LowerCase[name], value)
HeadersHas(headers, name) == LowerCase[name] \in DOMAIN headers

\* for (const [key, value] of Object.entries(object)) headers.set(key, value)
\* over the keys left; no two keys of an object of the model differ in case
\* only, so the order of the entries does not show.
RECURSIVE SetAll(_, _, _)
SetAll(headers, object, keys) ==
    IF keys = {} THEN headers
    ELSE LET key == CHOOSE k \in keys : TRUE
         IN  SetAll(HeadersSet(headers, key, String(object.f[key])), object, keys \ {key})

SetEntries(headers, object) == SetAll(headers, object, KeysIn(object))

UpperCase ==
    ("get" :> "GET") @@ ("head" :> "HEAD") @@ ("post" :> "POST") @@ ("put" :> "PUT")
    @@ ("delete" :> "DELETE") @@ ("patch" :> "PATCH")

toUpperCase(s) == [i \in 1..Len(s) |-> UpperCase[s[i]]]

----------------------------------------------------------------------------
(* HttpClientRequest: the request execution pipeline                       *)
(* call is the working state of the call in flight: the fields and locals  *)
(* of HttpClientRequest.execute, its position pc (the await it is at),     *)
(* the requests handed to the transport, the diagnostics written, and how  *)
(* it settled.  It also records the key path the call was made at (at),    *)
(* the error a slot validator threw (thrown), the header maps the producer *)
(* returned (produced), what the parse function of each validated slot     *)
(* returned (returned), the response as the transport returned it          *)
(* (received) and what the response validator answered (checked).          *)

\* An object whose entry order matters, as the sequence of its entries.
Entries(entries) == [t |-> "object", entries |-> entries]

\* A validateRequest that validates the body before the query.
AfterSlotBodyFirst ==
    ("params" :> "body") @@ ("body" :> "query") @@ ("query" :> "headers")
    @@ ("headers" :> "prepare")

AfterSlot ==
    ("params" :> "query") @@ ("query" :> "body") @@ ("body" :> "headers")
    @@ ("headers" :> "prepare")

\* new HttpClientRequest(baseUrl, route, baseOptions).execute(args, options),
\* up to the first await of validateRequest.
execute(endpoint, args, options) ==
    [ pc |-> "params",
      at |-> <<>>,
      url |-> mergePath(endpoint.baseUrl, endpoint.route.f["path"].s),
      method |-> toUpperCase(endpoint.route.f["method"].s),
      route |-> endpoint.route,
      baseOptions |-> endpoint.baseOptions,
      args |-> IF args = Undefined THEN Obj(<<>>) ELSE args,
      options |-> IF options = Undefined THEN Obj(<<>>) ELSE options,
      mergedOptions |-> deepMerge(endpoint.baseOptions,
                                  IF options = Undefined THEN Obj(<<>>) ELSE options),
      processedArgs |-> Obj(<<>>),
      returned |-> <<>>,
      finalUrl |-> <<>>,
      headers |-> <<>>,
      body |-> Undefined,
      requests |-> <<>>,
      produced |-> <<>>,
      received |-> Undefined,
      response |-> Undefined,
      responseData |-> Undefined,
      checked |-> Undefined,
      warnings |-> <<>>,
      thrown |-> Undefined,
      error |-> Undefined,
      result |-> Undefined ]

SetProcessed(c, slot, value) ==
    [c EXCEPT !.processedArgs = Obj(Put(c.processedArgs.f, slot, value))]

\* The validator of the slot that validateRequest invokes, if it invokes one.
SlotSchema(c, slot) == Get(Get(c.route, "request"), slot)

\* A condition that takes every declared slot, the null marker included.
ValidatesDeclared(c, slot) ==
    SlotSchema(c, slot) # Undefined /\ Get(c.args, slot) # Undefined
Validates(c, slot) == Truthy(SlotSchema(c, slot)) /\ Get(c.args, slot) # Undefined

\* One slot of validateRequest with errors caught: the raw argument is used.
validateSlotLenient(c, slot, reply) ==
    IF Validates(c, slot) /\ createParseFn(SlotSchema(c, slot)) # "error"
    THEN LET r == Parse(createParseFn(SlotSchema(c, slot)), Get(c.args, slot), reply)
         IN  IF r.ok
             THEN [SetProcessed(c, slot, r.value) EXCEPT
                      !.pc = AfterSlot[slot], !.returned = Put(@, slot, r.value)]
             ELSE [SetProcessed(c, slot, Get(c.args, slot)) EXCEPT
                      !.pc = AfterSlot[slot], !.thrown = r.thrown]
    ELSE IF Truthy(Get(c.args, slot))
         THEN [SetProcessed(c, slot, Get(c.args, slot)) EXCEPT !.pc = AfterSlot[slot]]
         ELSE [c EXCEPT !.pc = AfterSlot[slot]]

\* One slot of validateRequest that validates the argument and goes on with
\* the argument as the caller passed it.
validateSlotKeepingRaw(c, slot, reply) ==
    IF Validates(c, slot)
    THEN LET convention == createParseFn(SlotSchema(c, slot))
         IN  IF convention = "error"
             THEN [c EXCEPT !.pc = "rejected", !.error = ConfigError]
             ELSE LET r == Parse(convention, Get(c.args, slot), reply)
                  IN  IF r.ok
                      THEN [SetProcessed(c, slot, Get(c.args, slot)) EXCEPT
                               !.pc = AfterSlot[slot], !.returned = Put(@, slot, r.value)]
                      ELSE [c EXCEPT !.pc = "rejected", !.error = r.error,
                                     !.thrown = r.thrown]
    ELSE IF Truthy(Get(c.args, slot))
         THEN [SetProcessed(c, slot, Get(c.args, slot)) EXCEPT !.pc = AfterSlot[slot]]
         ELSE [c EXCEPT !.pc = AfterSlot[slot]]

\* One slot of validateRequest: the validator's answer to `await validator(..)`
\* is reply.
validateSlot(c, slot, reply) ==
    IF Validates(c, slot)
    THEN LET convention == createParseFn(SlotSchema(c, slot))
         IN  IF convention = "error"
             THEN [c EXCEPT !.pc = "rejected", !.error = ConfigError]
             ELSE LET r == Parse(convention, Get(c.args, slot), reply)
                  IN  IF r.ok
                      THEN [SetProcessed(c, slot, r.value) EXCEPT
                               !.pc = AfterSlot[slot], !.returned = Put(@, slot, r.value)]
                      ELSE [c EXCEPT !.pc = "rejected", !.error = r.error,
                                     !.thrown = r.thrown]
    ELSE IF Truthy(Get(c.args, slot))
         THEN [SetProcessed(c, slot, Get(c.args, slot)) EXCEPT !.pc = AfterSlot[slot]]
         ELSE [c EXCEPT !.pc = AfterSlot[slot]]

\* URLSearchParams.toString(): key=value joined by "&", form-urlencoded.
FormEncode(s) ==
    LET Code(tok) == IF tok = " " THEN <<"+">>
                     ELSE IF tok \in DOMAIN PercentCode THEN PercentCode[tok]
                     ELSE <<tok>>
        F[i \in 0..Len(s)] == IF i = 0 THEN <<>> ELSE F[i - 1] \o Code(s[i])
    IN  F[Len(s)]

RECURSIVE searchParamsToString(_)
searchParamsToString(sp) ==
    IF sp = <<>> THEN <<>>
    ELSE FormEncode(sp[1].key) \o <<"=">> \o FormEncode(sp[1].value)
         \o (IF Len(sp) > 1 THEN <<"&">> ELSE <<>>)
         \o searchParamsToString(Tail(sp))

includes(s, tok) == \E i \in 1..Len(s) : s[i] = tok

\* An execute that joins the query with "?" whatever the URL holds.
prepareJoiningWithQuestionMark(c) ==
    LET params == Get(c.processedArgs, "params")
        query == Get(c.processedArgs, "query")
        headers == Get(c.processedArgs, "headers")
        withParams == IF Truthy(params) THEN replaceUrlParams(c.url, params.entries)
                      ELSE c.url
        search == IF Truthy(query) THEN searchParamsToString(buildSearchParams(query.entries))
                  ELSE <<>>
    IN  [c EXCEPT !.finalUrl = IF search # <<>> THEN withParams \o <<"?">> \o search
                               ELSE withParams,
                  !.headers = IF Truthy(headers) THEN SetEntries(<<>>, headers) ELSE <<>>]

\* execute from the return of validateRequest to the options headers: the
\* final URL and the request-level headers.
prepare(c) ==
    LET params == Get(c.processedArgs, "params")
        query == Get(c.processedArgs, "query")
        headers == Get(c.processedArgs, "headers")
        withParams == IF Truthy(params) THEN replaceUrlParams(c.url, params.entries)
                      ELSE c.url
        search == IF Truthy(query) THEN searchParamsToString(buildSearchParams(query.entries))
                  ELSE <<>>
        withQuery == IF search # <<>>
                     THEN withParams
                          \o (IF includes(withParams, "?") THEN <<"&">> ELSE <<"?">>)
                          \o search
                     ELSE withParams
    IN  [c EXCEPT !.finalUrl = withQuery,
                  !.headers = IF Truthy(headers) THEN SetEntries(<<>>, headers) ELSE <<>>]

HeadersValue(headers) == [t |-> "Headers", h |-> headers]

\* { method, headers, body, ...mergedOptions.init }
RequestInit(method, headers, body, init) ==
    LET own == ("method" :> Str(method)) @@ ("headers" :> HeadersValue(headers))
               @@ ("body" :> body)
        rest == Spread(init)
    IN  [k \in DOMAIN own \cup DOMAIN rest |-> IF k \in DOMAIN rest THEN rest[k] ELSE own[k]]

NoBodyMethods == {<<"GET">>, <<"HEAD">>}

\* execute from the options headers to the call of the transport.
dispatch(c, optionsHeaders) ==
    LET withOptions == IF Truthy(optionsHeaders) THEN SetEntries(c.headers, optionsHeaders)
                       ELSE c.headers
        shouldHaveBody == c.method \notin NoBodyMethods
        processed == Get(c.processedArgs, "body")
        attach == shouldHaveBody /\ processed # Undefined
        body == IF attach THEN serializeBody(processed) ELSE Undefined
        contentType == IF attach THEN getContentType(processed) ELSE Undefined
        headers == IF attach /\ ~HeadersHas(withOptions, "Content-Type")
                      /\ Truthy(contentType)
                   THEN HeadersSet(withOptions, "Content-Type", contentType.s)
                   ELSE withOptions
        fetchFn == IF Truthy(Get(c.mergedOptions, "fetch"))
                   THEN Get(c.mergedOptions, "fetch") ELSE Fn("fetch")
    IN  [c EXCEPT !.headers = headers,
                  !.body = body,
                  !.pc = "fetch",
                  !.requests = Append(@, [ fetch |-> fetchFn, url |-> c.finalUrl,
                                           init |-> RequestInit(c.method, headers, body,
                                                        Get(c.mergedOptions, "init")) ])]

\* A Response: its status (as the property key it indexes responses with),
\* whether its body has been read, and which object it is.
Response(status, bodyUsed) ==
    [t |-> "response", id |-> "original", status |-> status, bodyUsed |-> bodyUsed]

TypeError == [name |-> "TypeError", message |-> "Body has already been consumed"]
SyntaxError == [name |-> "SyntaxError", message |-> "Unexpected token"]
NetworkError == [name |-> "TypeError", message |-> "fetch failed"]
ProducerError == [name |-> "Error", message |-> "headers"]

Resolve(c) == [c EXCEPT !.pc = "resolved", !.result = c.response]
Warn(c, error) == [c EXCEPT !.warnings = Append(@, error)]

\* The descriptor of route.responses for the status of the response.
ResponseDefinition(c) == Get(Get(c.route, "responses"), c.response.status)
HasSchema(c) ==
    LET responseDefinition == ResponseDefinition(c)
    IN  /\ Truthy(responseDefinition)
        /\ typeof(responseDefinition) = "object"
        /\ Truthy(Get(responseDefinition, "schema"))

\* response.clone(): throws when the body has been read; the clone is another
\* object, whose body is the one to be read.
clone(response) ==
    [ threw |-> response.bodyUsed,
      original |-> response,
      copy |-> [response EXCEPT !.id = "clone", !.bodyUsed = TRUE] ]

\* An execute that calls the transport a second time when it fails.
receiveRetrying(c, reply) ==
    IF reply.kind = "throw"
    THEN IF Len(c.requests) < 2
         THEN [c EXCEPT !.requests = Append(@, @[1])]
         ELSE [c EXCEPT !.pc = "rejected", !.error = reply.error]
    ELSE LET got == [c EXCEPT !.received = reply.response, !.response = reply.response]
         IN  IF HasSchema(got)
             THEN IF clone(got.response).threw
                  THEN [got EXCEPT !.pc = "rejected", !.error = TypeError]
                  ELSE [got EXCEPT !.pc = "json", !.response = clone(got.response).original]
             ELSE Resolve(got)

\* The transport settles: execute rejects with its error, or validateResponse
\* runs up to `await clonedResponse.json()`.
receive(c, reply) ==
    IF reply.kind = "throw"
    THEN [c EXCEPT !.pc = "rejected", !.error = reply.error]
    ELSE LET got == [c EXCEPT !.received = reply.response, !.response = reply.response]
         IN  IF HasSchema(got)
             THEN IF clone(got.response).threw
                  THEN [got EXCEPT !.pc = "rejected", !.error = TypeError]
                  ELSE [got EXCEPT !.pc = "json", !.response = clone(got.response).original]
             ELSE Resolve(got)

\* A validateResponse that hands back the validated data.
validatedReplacing(c, reply) ==
    LET r == Parse(createParseFn(Get(ResponseDefinition(c), "schema")), c.responseData, reply)
    IN  IF r.ok THEN [c EXCEPT !.pc = "resolved", !.result = r.value]
        ELSE Resolve(Warn(c, r.error))

\* clonedResponse.json() settles: a failure is caught and warned about;
\* otherwise createParseFn and `await validator(responseData)`.
decoded(c, reply) ==
    IF reply.kind = "throw" THEN Resolve(Warn(c, reply.error))
    ELSE IF createParseFn(Get(ResponseDefinition(c), "schema")) = "error"
         THEN Resolve(Warn(c, ConfigError))
         ELSE [c EXCEPT !.pc = "schema", !.responseData = reply.value]

\* The response validator settles: a failure is caught and warned about; the
\* response is returned either way.
validated(c, reply) ==
    LET r == Parse(createParseFn(Get(ResponseDefinition(c), "schema")), c.responseData, reply)
        done == [c EXCEPT !.checked = reply]
    IN  IF r.ok THEN Resolve(done) ELSE Resolve(Warn(done, r.error))

----------------------------------------------------------------------------
(* The client under test, its callers and its environment                  *)

Zod == Validator({"parse", "parseAsync", "~standard"})

Checked == Obj([slot \in {"params", "query", "body", "headers"} |-> Zod])
Unchecked == Obj([slot \in {"params", "query", "body", "headers"} |-> Null])

\* One validator of every other convention, and validators of no convention.
Mixed ==
    Obj(("params" :> Validator({"callable"})) @@ ("query" :> Validator({"callable", "assert"}))
        @@ ("body" :> Validator({"assert"})) @@ ("headers" :> Validator({"~standard"})))
Sync ==
    Obj(("params" :> Validator({"parse"})) @@ ("query" :> Validator({"validateSync"}))
        @@ ("body" :> Validator({"create"})) @@ ("headers" :> Validator({"parse", "~standard"})))
Unrecognized ==
    Obj(("params" :> Validator({})) @@ ("query" :> Validator({"safeParse"}))
        @@ ("body" :> Validator({"validate"})) @@ ("headers" :> Validator({"safeParse", "validate"})))

Responses ==
    Obj(("200" :> Obj(("description" :> Str(<<"OK">>)) @@ ("schema" :> Zod)))
        @@ ("201" :> Obj("description" :> Str(<<"Created">>)))
        @@ ("202" :> Obj(("description" :> Str(<<"Accepted">>))
                         @@ ("schema" :> Validator({"~standard"}))))
        @@ ("404" :> Str(<<"Not found">>)))

RoutePath == <<"/", "users", "/", ":", "id">>
SearchPath == <<"/", "users", "/", ":", "id", "?", "v", "=", "1">>

RouteAt(path, method, request) ==
    LET base == ("path" :> Str(path)) @@ ("method" :> Str(<<method>>))
                @@ ("responses" :> Responses)
    IN  Obj(IF request = Undefined THEN base ELSE base @@ ("request" :> request))

Route(method, request) == RouteAt(RoutePath, method, request)

RoutesOf(method) ==
    Obj(("plain" :> Route(method, Undefined)) @@ ("unchecked" :> Route(method, Unchecked))
        @@ ("checked" :> Route(method, Checked)))

\* The RouteMap: client.users.<method>.<plain | unchecked | checked>,
\* client.items.<mixed | sync | unrecognized>, which post, and
\* client.items.search, a get whose path has a query string.
TheRouteMap ==
    Obj(("users" :> Obj([method \in {"get", "head", "post"} |-> RoutesOf(method)]))
        @@ ("items" :> Obj(("mixed" :> Route("post", Mixed)) @@ ("sync" :> Route("post", Sync))
                           @@ ("unrecognized" :> Route("post", Unrecognized))
                           @@ ("search" :> RouteAt(SearchPath, "get", Undefined)))))

EndpointPaths ==
    {<<"users", method, kind>> :
        method \in {"get", "head", "post"}, kind \in {"plain", "unchecked", "checked"}}
    \cup {<<"items", kind>> : kind \in {"mixed", "sync", "unrecognized", "search"}}

HeaderMap(name, value) == Obj(name :> Str(<<value>>))

Configs ==
    { Obj(("baseUrl" :> Str(<<"api", "/">>)) @@ ("headers" :> h) @@ extra) :
        h \in {Undefined, HeaderMap("A", "2"), Fn("configHeaders")},
        extra \in {<<>>, ("fetch" :> Fn("configFetch")) @@ ("cache" :> Str(<<"no-store">>))} }

ParamsArg == Entries(<<[key |-> <<"id">>, value |-> Str(<<"5">>)]>>)
QueryArg == Entries(<<[key |-> <<"page">>, value |-> Num(1)]>>)
BodyArgs ==
    {Str(<<"{}">>), Str(<<>>), Num(0), Bool(FALSE), Obj("name" :> Str(<<"n">>)),
     Arr(<<Num(1)>>), Instance("FormData"), Instance("Blob")}
HeadersArgs == {HeaderMap("A", "1"), HeaderMap("a", "1"), HeaderMap("B", "1")}

\* What a validator may return in place of its input.
Coerced ==
    ("params" :> Entries(<<[key |-> <<"id">>, value |-> Str(<<"7">>)]>>))
    @@ ("query" :> Entries(<<[key |-> <<"page">>, value |-> Num(2)]>>))
    @@ ("body" :> Obj("name" :> Str(<<"m">>)))
    @@ ("headers" :> HeaderMap("A", "0"))
    @@ ("response" :> Obj("id" :> Str(<<"1">>)))

CallArgs ==
    {Undefined, Obj(<<>>), Obj("params" :> ParamsArg), Obj("query" :> QueryArg),
     Obj("query" :> Entries(<<>>)),
     Obj("query" :> Entries(<<[key |-> <<"page">>, value |-> Null],
                              [key |-> <<"tags">>, value |-> Undefined]>>))}
    \cup {Obj("body" :> b) : b \in BodyArgs}
    \cup {Obj("headers" :> h) : h \in HeadersArgs}
    \cup {Obj(("params" :> ParamsArg) @@ ("query" :> QueryArg)
              @@ ("body" :> Obj("name" :> Str(<<"n">>))) @@ ("headers" :> h)) :
            h \in {HeaderMap("A", "1")}}

CallOptions ==
    { Undefined,
      Obj("headers" :> HeaderMap("A", "3")),
      Obj("headers" :> HeaderMap("Content-Type", "text/csv")),
      Obj("headers" :> Fn("callHeaders")),
      Obj("fetch" :> Fn("callFetch")),
      Obj("init" :> Undefined),
      Obj("init" :> Obj("cache" :> Str(<<"reload">>))),
      Obj("init" :> Obj("method" :> Str(<<"DELETE">>))),
      Obj("init" :> Obj("body" :> Str(<<"raw">>))),
      Obj("init" :> Obj("headers" :> HeaderMap("A", "4"))) }

ProducerReplies ==
    { [kind |-> "return", value |-> HeaderMap("A", "7")],
      [kind |-> "return", value |-> HeaderMap("B", "8")],
      [kind |-> "throw", error |-> ProducerError] }

TransportReplies ==
    {[kind |-> "throw", error |-> NetworkError]}
    \cup {[kind |-> "response", response |-> Response(status, used)] :
            status \in {"200", "201", "202", "404", "500"}, used \in BOOLEAN}

JsonReplies ==
    { [kind |-> "return", value |-> Obj("id" :> Str(<<"1">>))],
      [kind |-> "throw", error |-> SyntaxError] }

Init ==
    /\ uIn = Idle
    /\ uOut = Idle
    /\ \E config \in Configs : client = httpClient(TheRouteMap, config)
    /\ call = Idle
    /\ calls = Idle
    /\ producer = Idle

\* A caller invokes the leaf callable at a key path of the client.
Invoke ==
    /\ call = Idle
    /\ \E p \in EndpointPaths, args \in CallArgs, options \in CallOptions :
          /\ ClientAt(client, p).t = "endpoint"
          /\ call' = [execute(ClientAt(client, p), args, options) EXCEPT !.at = p]
    /\ UNCHANGED <<uIn, uOut, client, calls, producer>>

\* `await validator(args.<slot>)` of validateRequest settles, or the slot
\* needs no validator.
ValidateSlot ==
    /\ call # Idle
    /\ call.pc \in DOMAIN AfterSlot
    /\ \E reply \in (IF Validates(call, call.pc)
                        /\ createParseFn(SlotSchema(call, call.pc)) # "error"
                     THEN ValidatorReplies(createParseFn(SlotSchema(call, call.pc)),
                                           Get(call.args, call.pc), Coerced[call.pc], call.pc)
                     ELSE {NoReply}) :
          call' = validateSlot(call, call.pc, reply)
    /\ UNCHANGED <<uIn, uOut, client, calls, producer>>

\* validateRequest has returned: the URL and the request headers are built;
\* static options headers lead straight to the transport, a producer is
\* called and awaited.
Prepare ==
    /\ call # Idle
    /\ call.pc = "prepare"
    /\ LET optionsHeaders == Get(call.mergedOptions, "headers")
       IN  IF typeof(optionsHeaders) = "function"
           THEN call' = [prepare(call) EXCEPT !.pc = "producer"]
           ELSE call' = dispatch(prepare(call), optionsHeaders)
    /\ UNCHANGED <<uIn, uOut, client, calls, producer>>

\* `await mergedOptions.headers()` settles.
ProducerSettles ==
    /\ call # Idle
    /\ call.pc = "producer"
    /\ \E reply \in ProducerReplies :
          IF reply.kind = "throw"
          THEN call' = [call EXCEPT !.pc = "rejected", !.error = reply.error]
          ELSE call' = dispatch([call EXCEPT !.produced = Append(@, reply.value)], reply.value)
    /\ UNCHANGED <<uIn, uOut, client, calls, producer>>

\* `await fetchFn(finalUrl, init)` settles.
TransportSettles ==
    /\ call # Idle
    /\ call.pc = "fetch"
    /\ \E reply \in TransportReplies : call' = receive(call, reply)
    /\ UNCHANGED <<uIn, uOut, client, calls, producer>>

\* `await clonedResponse.json()` settles.
JsonSettles ==
    /\ call # Idle
    /\ call.pc = "json"
    /\ \E reply \in JsonReplies : call' = decoded(call, reply)
    /\ UNCHANGED <<uIn, uOut, client, calls, producer>>

\* `await validator(responseData)` settles.
SchemaSettles ==
    /\ call # Idle
    /\ call.pc = "schema"
    /\ \E reply \in ValidatorReplies(createParseFn(Get(ResponseDefinition(call), "schema")),
                                     call.responseData, Coerced["response"], "response") :
          call' = validated(call, reply)
    /\ UNCHANGED <<uIn, uOut, client, calls, producer>>

\* The caller has the outcome; the working state of the call is dropped.
Settle ==
    /\ call # Idle
    /\ call.pc \in {"resolved", "rejected"}
    /\ call' = Idle
    /\ UNCHANGED <<uIn, uOut, client, calls, producer>>

Next ==
    \/ Invoke
    \/ ValidateSlot
    \/ Prepare
    \/ ProducerSettles
    \/ TransportSettles
    \/ JsonSettles
    \/ SchemaSettles
    \/ Settle

Spec == Init /\ [][Next]_vars

InFlight == call # Idle

----------------------------------------------------------------------------
(* Properties of the pipeline                                              *)

Rejected == InFlight /\ call.pc = "rejected"
Resolved == InFlight /\ call.pc = "resolved"

\* C1: when the validator of a supplied request slot throws or rejects, the
\* transport is never invoked for the call and the call rejects with the
\* validator's error.
C1_ValidatorFailureAborts ==
    (InFlight /\ call.thrown # Undefined) =>
        /\ call.requests = <<>>
        /\ call.pc = "rejected"
        /\ call.error = call.thrown

C1_Witness ==
    /\ Rejected
    /\ call.thrown = ValidationError("headers")
    /\ call.error = ValidationError("headers")
    /\ Has(call.processedArgs, "body")
    /\ call.requests = <<>>

\* C2: once the transport has returned a response the call never rejects,
\* whatever fails during response validation (cloning included).
C2_ResolvesAfterResponse ==
    (InFlight /\ call.received # Undefined) => call.pc # "rejected"

ConfiguredHeaders(c) ==
    IF c.produced # <<>> THEN c.produced[Len(c.produced)]
    ELSE IF isObject(Get(c.mergedOptions, "headers")) THEN Get(c.mergedOptions, "headers")
    ELSE Obj(<<>>)

RequestHeaders(c) ==
    IF Truthy(Get(c.processedArgs, "headers")) THEN Get(c.processedArgs, "headers")
    ELSE Obj(<<>>)

\* The value an object of headers gives the header name (in lower case).
Named(object, name) == {String(object.f[k]) : k \in {k \in DOMAIN object.f : LowerCase[k] = name}}

\* C4: a header that the request-level headers and the configured headers
\* both set is sent with the configured value; a header that one of them
\* alone sets is sent with that value.  Names are compared as Headers
\* compares them, without case.
C4_ConfiguredHeadersWin ==
    InFlight =>
        \A i \in 1..Len(call.requests) :
            LET sent == call.requests[i].init["headers"]
            IN  \A name \in {"a", "b"} :
                    LET configured == Named(ConfiguredHeaders(call), name)
                        requested == Named(RequestHeaders(call), name)
                        expected == IF configured # {} THEN configured ELSE requested
                    IN  expected # {} =>
                            /\ sent.t = "Headers"
                            /\ name \in DOMAIN sent.h
                            /\ sent.h[name] \in expected

\* C5: a route whose method is GET or HEAD hands the transport a request
\* descriptor without a body, whatever body argument is supplied.
C5_NoBodyOnGetHead ==
    InFlight =>
        \A i \in 1..Len(call.requests) :
            call.route.f["method"].s \in {<<"get">>, <<"head">>} =>
                call.requests[i].init["body"] = Undefined

PipelineKeys ==
    {"users", "get", "head", "post", "plain", "unchecked", "checked",
     "items", "mixed", "sync", "unrecognized", "search"}

\* C10: the client has a callable exactly at the route definitions of the
\* RouteMap and a sub-tree exactly at its nested maps, and a call at a key
\* path dispatches a request with the method and path of the route
\* definition at that key path.
C10_ClientMirrorsAndDispatches ==
    /\ ~InFlight =>
          \A p \in SeqsUpTo(PipelineKeys, 3) \ {<<>>} :
              LET source == RouteMapAt(TheRouteMap, p)
                  built == ClientAt(client, p)
              IN  /\ built.t = "endpoint" <=> RouteDefinitionShaped(source)
                  /\ isObject(built) <=> (isObject(source) /\ ~RouteDefinitionShaped(source))
    /\ InFlight =>
          \A i \in 1..Len(call.requests) :
              LET source == RouteMapAt(TheRouteMap, call.at)
                  request == call.requests[i]
              IN  /\ request.init["method"] = Str(toUpperCase(source.f["method"].s))
                  /\ SubSeq(request.url, 1, 4) = <<"api", "/", "users", "/">>

\* The slots validateRequest has gone past once it is at, or beyond, a slot.
SlotsUpTo ==
    ("params" :> {"params"}) @@ ("query" :> {"params", "query"})
    @@ ("body" :> {"params", "query", "body"})
    @@ ("headers" :> {"params", "query", "body", "headers"})

\* The caller supplied a value for a slot whose validator matches no
\* convention.
Unmatched(c, slot) ==
    /\ Truthy(SlotSchema(c, slot))
    /\ Get(c.args, slot) # Undefined
    /\ FirstMatch(SlotSchema(c, slot)) = "error"

SlotValidatorThrew(c, slot) ==
    /\ c.thrown = ValidationError(slot)
    /\ FirstMatch(SlotSchema(c, slot)) # "standard"

\* The validator of the response threw the error.
ResponseValidatorThrew(c) ==
    \E i \in 1..Len(c.warnings) : c.warnings[i] = ValidationError("response")

TransportFailed(c) == c.pc = "rejected" /\ c.requests # <<>> /\ c.received = Undefined

\* C15: a call that gets as far as dispatch calls the transport exactly
\* once; when the transport throws or rejects, the call rejects with that
\* error, the transport is not called again, and there is no response
\* validation and no diagnostic.
C15_TransportOnceNoRetry ==
    InFlight =>
        /\ Len(call.requests) <= 1
        /\ call.pc \in {"fetch", "json", "schema", "resolved"} => Len(call.requests) = 1
        /\ call.pc \in DOMAIN AfterSlot \cup {"prepare", "producer"} => call.requests = <<>>
        /\ TransportFailed(call) =>
              /\ call.error = NetworkError
              /\ call.responseData = Undefined
              /\ call.warnings = <<>>
              /\ call.result = Undefined

C15_Witness ==
    /\ Rejected
    /\ Len(call.requests) = 1
    /\ call.received = Undefined
    /\ call.error = NetworkError
    /\ call.warnings = <<>>

\* C18: once validateRequest is past a slot for which the route declares no
\* validator (omitted, or the null marker), the processed arguments hold the
\* slot exactly when the caller supplied a value for it, falsy values
\* included, and hold the supplied value.
C18_UnvalidatedSlotsPassThrough ==
    InFlight =>
        \A slot \in DOMAIN SlotsUpTo :
            (SlotSchema(call, slot) \in {Undefined, Null}
             /\ call.pc \notin SlotsUpTo[slot] \cup {"rejected"}) =>
                /\ Has(call.processedArgs, slot) <=> Get(call.args, slot) # Undefined
                /\ Get(call.processedArgs, slot) = Get(call.args, slot)

\* The passthrough options of the call set none of method, headers and body:
\* C4, C5 and C10 hold of every such call.
PlainPassthrough(c) ==
    DOMAIN Spread(Get(c.mergedOptions, "init")) \cap {"method", "headers", "body"} = {}

----------------------------------------------------------------------------
(* execute as one function of the call and of what the awaited party       *)
(* answers: the continuation of execute at each of its awaits.             *)

\* What the party awaited at the position of the call may answer.
Replies(c) ==
    CASE c.pc \in DOMAIN AfterSlot ->
            IF Validates(c, c.pc) /\ createParseFn(SlotSchema(c, c.pc)) # "error"
            THEN ValidatorReplies(createParseFn(SlotSchema(c, c.pc)), Get(c.args, c.pc),
                                  Coerced[c.pc], c.pc)
            ELSE {NoReply}
      [] c.pc = "prepare" -> {NoReply}
      [] c.pc = "producer" -> ProducerReplies
      [] c.pc = "fetch" -> TransportReplies
      [] c.pc = "json" -> JsonReplies
      [] c.pc = "schema" ->
            ValidatorReplies(createParseFn(Get(ResponseDefinition(c), "schema")),
                             c.responseData, Coerced["response"], "response")
      [] OTHER -> {}

\* `await mergedOptions.headers()` settles with reply.
produced(c, reply) ==
    IF reply.kind = "throw"
    THEN [c EXCEPT !.pc = "rejected", !.error = reply.error]
    ELSE dispatch([c EXCEPT !.produced = Append(@, reply.value)], reply.value)

\* execute from the position of the call to its next await, or to its end.
step(c, reply) ==
    CASE c.pc \in DOMAIN AfterSlot -> validateSlot(c, c.pc, reply)
      [] c.pc = "prepare" ->
            IF typeof(Get(c.mergedOptions, "headers")) = "function"
            THEN [prepare(c) EXCEPT !.pc = "producer"]
            ELSE dispatch(prepare(c), Get(c.mergedOptions, "headers"))
      [] c.pc = "producer" -> produced(c, reply)
      [] c.pc = "fetch" -> receive(c, reply)
      [] c.pc = "json" -> decoded(c, reply)
      [] c.pc = "schema" -> validated(c, reply)

Settled(c) == c.pc \in {"resolved", "rejected"}

----------------------------------------------------------------------------
(* The same call on a route without `request` and on the route whose       *)
(* `request` holds the null marker in every slot, the awaited parties      *)
(* answering both alike: calls is the pair of the two calls.               *)

InitEquiv ==
    /\ uIn = Idle
    /\ uOut = Idle
    /\ \E config \in Configs : client = httpClient(TheRouteMap, config)
    /\ call = Idle
    /\ calls = Idle
    /\ producer = Idle

EquivInvoke ==
    /\ calls = Idle
    /\ \E method \in {"get", "head", "post"}, args \in CallArgs, options \in CallOptions :
          calls' = [kind \in {"plain", "unchecked"} |->
                       [execute(ClientAt(client, <<"users", method, kind>>), args, options)
                           EXCEPT !.at = <<"users", method, kind>>]]
    /\ UNCHANGED <<uIn, uOut, client, call, producer>>

EquivStep ==
    /\ calls # Idle
    /\ calls["plain"].pc = calls["unchecked"].pc
    /\ \E reply \in Replies(calls["plain"]) \cap Replies(calls["unchecked"]) :
          calls' = [kind \in {"plain", "unchecked"} |-> step(calls[kind], reply)]
    /\ UNCHANGED <<uIn, uOut, client, call, producer>>

EquivSettle ==
    /\ calls # Idle
    /\ Settled(calls["plain"])
    /\ Settled(calls["unchecked"])
    /\ calls' = Idle
    /\ UNCHANGED <<uIn, uOut, client, call, producer>>

NextEquiv ==
    \/ EquivInvoke
    \/ EquivStep
    \/ EquivSettle

SpecEquiv == InitEquiv /\ [][NextEquiv]_vars

\* The call without its route definition and its key path.
Observable(c) == [c EXCEPT !.route = Undefined, !.at = <<>>]

\* C17: the call on the route without `request` and the call on the route
\* with the null marker in every slot are at the same position, await the
\* same answers, have dispatched the same requests (URL, method, headers,
\* body) and have the same outcome, for every arguments, options and
\* answers of the transport.
C17_NoRequestEqualsNullMarkers ==
    calls # Idle =>
        /\ Observable(calls["plain"]) = Observable(calls["unchecked"])
        /\ Replies(calls["plain"]) = Replies(calls["unchecked"])

C17_Witness ==
    /\ calls # Idle
    /\ Get(calls["plain"].route, "request") = Undefined
    /\ Get(calls["unchecked"].route, "request") = Unchecked
    /\ Get(calls["plain"].args, "body") = Num(0)
    /\ calls["plain"].method = <<"POST">>
    /\ calls["unchecked"].pc = "resolved"
    /\ Len(calls["unchecked"].requests) = 1

----------------------------------------------------------------------------
(* Calls through one client, in sequence and interleaved at their awaits.  *)
(* calls holds the calls in flight: for each, the working state c of its   *)
(* execute, and what the caller and the awaited parties gave it (id, args, *)
(* options, script).  producer is the header producer of the config: who   *)
(* invoked it, in order.  uIn is the config the client was built from and  *)
(* uOut the log of the calls made so far: whether the call passed headers  *)
(* of its own, whether it reached header assembly.                         *)

\* The places of calls: two calls can be in flight at once.
Places == {1, 2}
MaxCalls == 2

\* What the k-th invocation of the header producer returns.
Token == <<"t1", "t2", "t3", "t4", "t5", "t6">>
ProducerValue(k) == HeaderMap("A", Token[k])

\* The invocations of the producer made by the call id.
InvocationsBy(p, id) == {k \in 1..Len(p.by) : p.by[k] = id}

\* A producer that answers every invocation with its first result.
awaitedCached(p, w) == ProducerValue(1)

\* A producer whose results are read from a place the invocations share.
awaitedLatest(p, w) == ProducerValue(Len(p.by))

\* `await mergedOptions.headers()`: the result of the invocation the call
\* itself made.
awaited(p, w) == ProducerValue(CHOOSE k \in InvocationsBy(p, w.id) : TRUE)

\* A merge that writes into its target.
deepMergeInPlace(target, source) == deepMerge(target, source)

\* The object target after deepMerge(target, source): deepMerge copies the
\* target into a fresh result and assigns to the result only.
deepMergeTarget(target, source) == target

\* The client whose endpoints capture baseOptions: one object, shared by all
\* the closures.
RECURSIVE Capturing(_, _)
Capturing(tree, baseOptions) ==
    IF tree.t = "endpoint" THEN [tree EXCEPT !.baseOptions = baseOptions]
    ELSE IF isObject(tree) THEN Obj([k \in DOMAIN tree.f |-> Capturing(tree.f[k], baseOptions)])
    ELSE tree

ConcurrentConfigs ==
    { Obj(("baseUrl" :> Str(<<"api", "/">>)) @@ ("headers" :> Fn("configHeaders"))
          @@ ("cache" :> Str(<<"no-store">>))),
      Obj(("baseUrl" :> Str(<<"api", "/">>)) @@ ("headers" :> HeaderMap("B", "2"))) }

\* The calls made: a validated post with a body and headers, a get without
\* arguments.
ConcurrentCalls ==
    { [at |-> <<"users", "post", "checked">>,
       args |-> Obj(("body" :> Obj("name" :> Str(<<"n">>)))
                    @@ ("headers" :> HeaderMap("A", "1")))],
      [at |-> <<"users", "get", "plain">>, args |-> Undefined] }

ConcurrentOptions ==
    { Undefined,
      Obj("headers" :> HeaderMap("A", "3")),
      Obj("init" :> Obj(("headers" :> HeaderMap("A", "4")) @@ ("mode" :> Str(<<"cors">>)))) }

\* The answers of the awaited parties, fewer than in Spec.
ConcurrentReplies(c) ==
    CASE c.pc = "fetch" ->
            { [kind |-> "throw", error |-> NetworkError],
              [kind |-> "response", response |-> Response("200", FALSE)] }
      [] c.pc = "json" -> {[kind |-> "return", value |-> Obj("id" :> Str(<<"1">>))]}
      [] OTHER -> {r \in Replies(c) :
                      \/ r.kind \in {"none", "throw"}
                      \/ r.kind = "return" /\ r.value \notin {Coerced[k] : k \in DOMAIN Coerced}}

\* The call passes no headers of its own: neither options.headers nor a
\* headers key in the passthrough options.init.
NoHeadersOption(options) ==
    /\ Get(options, "headers") = Undefined
    /\ Get(Get(options, "init"), "headers") = Undefined

InitConcurrent ==
    /\ \E config \in ConcurrentConfigs :
          /\ uIn = [fn |-> "httpClient", routeMap |-> TheRouteMap, config |-> config]
          /\ client = httpClient(TheRouteMap, config)
    /\ uOut = [fn |-> "calls", log |-> <<>>]
    /\ call = Idle
    /\ calls = [i \in Places |-> Idle]
    /\ producer = [by |-> <<>>]

\* The call i with its execute at c, having been given reply.
Advance(i, c, reply) ==
    [calls EXCEPT ![i] = [@ EXCEPT !.c = c, !.script = Append(@, reply)]]

At(i, positions) == calls[i] # Idle /\ calls[i].c.pc \in positions

\* A caller invokes a leaf callable while other calls may be in flight:
\* a new HttpClientRequest, the option merge, up to the first await.  The
\* call takes the first free place of calls.
ConcurrentInvoke ==
    /\ Len(uOut.log) < MaxCalls
    /\ \E i \in Places, made \in ConcurrentCalls, options \in ConcurrentOptions :
          LET p == made.at
              args == made.args
              endpoint == ClientAt(client, p)
          IN  /\ calls[i] = Idle
              /\ \A j \in 1..(i - 1) : calls[j] # Idle
              /\ calls' = [calls EXCEPT ![i] =
                              [ id |-> Len(uOut.log) + 1,
                                at |-> p,
                                args |-> args,
                                options |-> options,
                                script |-> <<>>,
                                c |-> [execute(endpoint, args, options) EXCEPT !.at = p] ]]
              /\ client' = Capturing(client,
                                deepMergeTarget(endpoint.baseOptions,
                                    IF options = Undefined THEN Obj(<<>>) ELSE options))
              /\ uOut' = [uOut EXCEPT !.log = Append(@, [plain |-> NoHeadersOption(options),
                                                         assembled |-> FALSE])]
    /\ UNCHANGED <<uIn, call, producer>>

ConcurrentValidate ==
    /\ \E i \in Places :
          /\ At(i, DOMAIN AfterSlot)
          /\ \E reply \in ConcurrentReplies(calls[i].c) :
                calls' = Advance(i, validateSlot(calls[i].c, calls[i].c.pc, reply), reply)
    /\ UNCHANGED <<uIn, uOut, client, call, producer>>

\* Header assembly: a producer is invoked, its result awaited.
ConcurrentPrepare ==
    /\ \E i \in Places :
          /\ At(i, {"prepare"})
          /\ LET c == calls[i].c
                 optionsHeaders == Get(c.mergedOptions, "headers")
             IN  IF typeof(optionsHeaders) = "function"
                 THEN /\ producer' = [producer EXCEPT !.by = Append(@, calls[i].id)]
                      /\ calls' = Advance(i, [prepare(c) EXCEPT !.pc = "producer"], NoReply)
                 ELSE /\ producer' = producer
                      /\ calls' = Advance(i, dispatch(prepare(c), optionsHeaders), NoReply)
          /\ uOut' = [uOut EXCEPT !.log[calls[i].id].assembled = TRUE]
    /\ UNCHANGED <<uIn, client, call>>

ConcurrentProducerSettles ==
    /\ \E i \in Places :
          /\ At(i, {"producer"})
          /\ LET own == CHOOSE k \in InvocationsBy(producer, calls[i].id) : TRUE
             IN  \/ calls' = Advance(i,
                        produced(calls[i].c, [kind |-> "return",
                                              value |-> awaited(producer, calls[i])]),
                        [kind |-> "return", value |-> ProducerValue(own)])
                 \/ LET reply == [kind |-> "throw", error |-> ProducerError]
                    IN  calls' = Advance(i, produced(calls[i].c, reply), reply)
    /\ UNCHANGED <<uIn, uOut, client, call, producer>>

ConcurrentTransportSettles ==
    /\ \E i \in Places :
          /\ At(i, {"fetch"})
          /\ \E reply \in ConcurrentReplies(calls[i].c) :
                calls' = Advance(i, receive(calls[i].c, reply), reply)
    /\ UNCHANGED <<uIn, uOut, client, call, producer>>

ConcurrentJsonSettles ==
    /\ \E i \in Places :
          /\ At(i, {"json"})
          /\ \E reply \in ConcurrentReplies(calls[i].c) :
                calls' = Advance(i, decoded(calls[i].c, reply), reply)
    /\ UNCHANGED <<uIn, uOut, client, call, producer>>

ConcurrentSchemaSettles ==
    /\ \E i \in Places :
          /\ At(i, {"schema"})
          /\ \E reply \in ConcurrentReplies(calls[i].c) :
                calls' = Advance(i, validated(calls[i].c, reply), reply)
    /\ UNCHANGED <<uIn, uOut, client, call, producer>>

\* The caller of call i has its outcome.
ConcurrentSettle ==
    /\ \E i \in Places :
          /\ At(i, {"resolved", "rejected"})
          /\ calls' = [calls EXCEPT ![i] = Idle]
    /\ UNCHANGED <<uIn, uOut, client, call, producer>>

NextConcurrent ==
    \/ ConcurrentInvoke
    \/ ConcurrentValidate
    \/ ConcurrentPrepare
    \/ ConcurrentProducerSettles
    \/ ConcurrentTransportSettles
    \/ ConcurrentJsonSettles
    \/ ConcurrentSchemaSettles
    \/ ConcurrentSettle

SpecConcurrent == InitConcurrent /\ [][NextConcurrent]_vars

InFlightCalls == {i \in Places : calls[i] # Idle}

ProducerConfigured == typeof(Get(uIn.config, "headers")) = "function"

\* C16: with a header producer in the config, a call that passes no headers
\* of its own invokes the producer exactly once when it reaches header
\* assembly and not before, and the headers it dispatches are the ones its
\* own invocation returned: n such calls make n invocations and none uses
\* the result of another call's invocation.
C16_ProducerInvokedPerCall ==
    (uOut.fn = "calls" /\ ProducerConfigured) =>
        /\ \A id \in 1..Len(uOut.log) :
              uOut.log[id].plain =>
                  Cardinality(InvocationsBy(producer, id))
                      = (IF uOut.log[id].assembled THEN 1 ELSE 0)
        /\ \A i \in InFlightCalls :
              (NoHeadersOption(calls[i].options) /\ calls[i].c.requests # <<>>) =>
                  \E k \in InvocationsBy(producer, calls[i].id) :
                      /\ Len(calls[i].c.requests) = 1
                      /\ calls[i].c.requests[1].init["headers"]
                            = HeadersValue(SetEntries(calls[i].c.requests[1].init["headers"].h,
                                                      ProducerValue(k)))

C16_Witness ==
    /\ uOut.fn = "calls"
    /\ ProducerConfigured
    /\ Len(producer.by) = 2
    /\ \A i \in Places :
          /\ calls[i] # Idle
          /\ calls[i].options = Undefined
          /\ Len(calls[i].c.requests) = 1
    /\ calls[1].c.requests[1].init["headers"].h["a"] = String(Str(<<"t2">>))
    /\ calls[2].c.requests[1].init["headers"].h["a"] = String(Str(<<"t1">>))

\* The client as httpClient built it.
Built == httpClient(TheRouteMap, uIn.config)

RECURSIVE Run(_, _)
Run(c, script) ==
    IF script = <<>> THEN c ELSE Run(step(c, Head(script)), Tail(script))

Alone(w) ==
    Run([execute(ClientAt(Built, w.at), w.args, w.options) EXCEPT !.at = w.at], w.script)

----------------------------------------------------------------------------
(* Properties of the request descriptor                                    *)

Dispatched == InFlight /\ call.requests # <<>>

\* The passthrough options given at construction, and those of the call.
ConstructionInit(c) == Spread(Get(c.baseOptions, "init"))
CallInit(c) == Spread(Get(c.options, "init"))

\* C21: every passthrough option given at client construction appears with
\* the same value in the descriptor of every request dispatched, unless a
\* per-call option sets the same key.
C21_PassthroughInEveryRequest ==
    InFlight =>
        \A i \in 1..Len(call.requests) :
            \A key \in DOMAIN ConstructionInit(call) \ DOMAIN CallInit(call) :
                /\ key \in DOMAIN call.requests[i].init
                /\ call.requests[i].init[key] = ConstructionInit(call)[key]

\* The same of the calls whose options have no `init` key at all.
C21_PassthroughWithoutCallInit ==
    (InFlight /\ ~Has(call.options, "init")) =>
        \A i \in 1..Len(call.requests) :
            \A key \in DOMAIN ConstructionInit(call) :
                /\ key \in DOMAIN call.requests[i].init
                /\ call.requests[i].init[key] = ConstructionInit(call)[key]

\* The header collection before the body is assembled: the request-level
\* headers, then the configured ones set over them.
AssembledHeaders(c) ==
    SetEntries(SetEntries(<<>>, RequestHeaders(c)), ConfiguredHeaders(c))

\* The call attaches a body: the method bears one and a body value is there.
AttachesBody(c) ==
    c.method \notin NoBodyMethods /\ Get(c.processedArgs, "body") # Undefined

\* The body is sent as JSON text: a string that is JSON, or a serialization.
JsonShaped(body) ==
    \/ body.t = "string" /\ body.s \in JsonTexts
    \/ body.t = "array"
    \/ isObject(body) /\ "class" \notin DOMAIN body

\* C22: for a call that attaches a body, a Content-Type of the assembled
\* headers is sent unchanged; without one the Content-Type sent is set from
\* the shape of the body (application/json for JSON shapes only), and none
\* is set for a multipart form-data body.
C22_ContentTypeKeptOrFromShape ==
    InFlight =>
        \A i \in 1..Len(call.requests) :
            AttachesBody(call) =>
                LET sent == call.requests[i].init["headers"]
                    assembled == AssembledHeaders(call)
                    body == Get(call.processedArgs, "body")
                IN  /\ sent.t = "Headers"
                    /\ IF "content-type" \in DOMAIN assembled
                       THEN /\ "content-type" \in DOMAIN sent.h
                            /\ sent.h["content-type"] = assembled["content-type"]
                       ELSE IF instanceof(body, "FormData")
                            THEN "content-type" \notin DOMAIN sent.h
                            ELSE /\ "content-type" \in DOMAIN sent.h
                                 /\ sent.h["content-type"] = <<"application/json">>
                                       <=> JsonShaped(body)

\* The body to send for a body value, by the kind of the value.
BodyFor(value) ==
    IF value.t = "string" THEN value
    ELSE IF \E class \in {"FormData", "URLSearchParams", "Blob", "ArrayBuffer"} :
               instanceof(value, class)
         THEN value
    ELSE IF value.t \in {"object", "array"} THEN JSONstringify(value)
    ELSE Str(String(value))

\* C23: on a body-bearing method the body sent for a validated body value
\* is the value itself when it is a raw string, a binary payload, multipart
\* form data or URL-encoded form data, its JSON serialization when it is
\* object- or array-shaped, and its string form for every other value.
C23_BodySentAsSerialized ==
    InFlight =>
        \A i \in 1..Len(call.requests) :
            AttachesBody(call) =>
                call.requests[i].init["body"] = BodyFor(Get(call.processedArgs, "body"))

\* validateRequest has returned and execute has built the URL.
UrlBuilt == InFlight /\ call.finalUrl # <<>>

IsPrefix(p, s) == Len(p) <= Len(s) /\ SubSeq(s, 1, Len(p)) = p
IsSuffix(p, s) == Len(p) <= Len(s) /\ SubSeq(s, Len(s) - Len(p) + 1, Len(s)) = p

\* C24: for every slot that has a validator and a supplied value, the value
\* the request is built from (path substitution, query pairs, request-level
\* headers, body) is the value the validator of the slot returned, not the
\* raw input of the caller.
C24_RequestBuiltFromValidated ==
    UrlBuilt =>
        /\ \A slot \in DOMAIN AfterSlot :
               Validates(call, slot) =>
                   /\ slot \in DOMAIN call.returned
                   /\ Get(call.processedArgs, slot) = call.returned[slot]
        /\ Validates(call, "params") =>
               IsPrefix(IF Truthy(call.returned["params"])
                        THEN replaceUrlParams(call.url, call.returned["params"].entries)
                        ELSE call.url,
                        call.finalUrl)
        /\ (Validates(call, "query") /\ Truthy(call.returned["query"])) =>
               IsSuffix(searchParamsToString(
                            buildSearchParams(call.returned["query"].entries)),
                        call.finalUrl)
        /\ (Validates(call, "headers") /\ Truthy(call.returned["headers"])) =>
               LET requested == SetEntries(<<>>, call.returned["headers"])
                   configured == SetEntries(<<>>, ConfiguredHeaders(call))
               IN  \A name \in DOMAIN requested \ DOMAIN configured :
                       /\ name \in DOMAIN call.headers
                       /\ call.headers[name] = requested[name]
        /\ (Validates(call, "body") /\ call.requests # <<>>
               /\ call.method \notin NoBodyMethods) =>
               call.body = serializeBody(call.returned["body"])

C24_Witness ==
    /\ Dispatched
    /\ call.at = <<"users", "post", "checked">>
    /\ DOMAIN call.returned = DOMAIN AfterSlot
    /\ \A slot \in DOMAIN AfterSlot :
           /\ call.returned[slot] = Coerced[slot]
           /\ call.returned[slot] # Get(call.args, slot)
    /\ call.finalUrl = <<"api", "/", "users", "/", "7", "?", "page", "=", "2">>
    /\ call.headers["a"] = <<"0">>
    /\ call.body = JSONstringify(Coerced["body"])

\* The URL of the call after the substitution of the path parameters.
UrlWithParams(c) ==
    IF Truthy(Get(c.processedArgs, "params"))
    THEN replaceUrlParams(c.url, Get(c.processedArgs, "params").entries)
    ELSE c.url

\* The serialized query of the call: empty without a query argument.
SerializedQuery(c) ==
    IF Truthy(Get(c.processedArgs, "query"))
    THEN searchParamsToString(buildSearchParams(Get(c.processedArgs, "query").entries))
    ELSE <<>>

\* C25: the serialized query is joined to the URL with "&" when the URL
\* holds a "?" already and with "?" otherwise; a serialization without
\* pairs leaves the URL as it is, with no trailing "?" or "&".
C25_QueryJoined ==
    UrlBuilt =>
        LET base == UrlWithParams(call)
            search == SerializedQuery(call)
        IN  IF search = <<>>
            THEN /\ call.finalUrl = base
                 /\ call.finalUrl[Len(call.finalUrl)] \notin {"?", "&"}
            ELSE call.finalUrl
                    = base \o <<(IF includes(base, "?") THEN "&" ELSE "?")>> \o search

C25_Witness ==
    /\ UrlBuilt
    /\ call.at = <<"items", "search">>
    /\ Get(call.args, "query") = QueryArg
    /\ call.finalUrl
          = <<"api", "/", "users", "/", ":", "id", "?", "v", "=", "1", "&", "page", "=", "1">>

\* The answer of a validator says that the value fails the schema.
Fails(reply) ==
    \/ reply.kind = "throw"
    \/ reply.kind = "result" /\ reply.issues.t = "array" /\ reply.issues.items # <<>>

\* C26: a resolved call has emitted the diagnostic exactly when the status
\* received has a response descriptor that declares a schema and the check
\* of the JSON-decoded body against it failed; a body that passes gives no
\* diagnostic, and for a status without descriptor, a plain-string
\* descriptor or a descriptor without schema there is no diagnostic and the
\* response is neither cloned nor read.
C26_DiagnosticIffSchemaFails ==
    Resolved =>
        /\ call.warnings # <<>>
              <=> (HasSchema(call) /\ call.checked # Undefined /\ Fails(call.checked))
        /\ ~HasSchema(call) =>
              /\ call.warnings = <<>>
              /\ call.responseData = Undefined
              /\ call.response = call.received

\* The same of the responses whose body decodes and whose validator does
\* not answer with an empty collection of issues.
C26_DiagnosticIffDecodedFails ==
    (Resolved /\ (HasSchema(call) => call.checked # Undefined)
       /\ (call.checked # Undefined /\ call.checked.kind = "result"
             => call.checked.issues # Arr(<<>>))) =>
        /\ call.warnings # <<>>
              <=> (HasSchema(call) /\ call.checked # Undefined /\ Fails(call.checked))
        /\ ~HasSchema(call) =>
              /\ call.warnings = <<>>
              /\ call.responseData = Undefined
              /\ call.response = call.received

----------------------------------------------------------------------------
(* Ambiguous entries of a RouteMap                                         *)

Used == uOut.fn = "httpClient" /\ uOut.use # Idle

\* The entry is neither a route definition by shape nor a nested mapping.
Ambiguous(value) == ~RouteDefinitionShaped(value) /\ ~isObject(value)

\* C27: the first use of a RouteMap entry that is neither shaped as a route
\* definition nor a nested mapping fails with a configuration error; the
\* entry is not silently accepted.
C27_AmbiguousEntryIsConfigError ==
    (Used /\ Ambiguous(uIn.routeMap.f[uOut.use.key])) =>
        /\ uOut.use.outcome.kind = "throw"
        /\ uOut.use.outcome.error = ConfigError

\* What the code does with such an entry: the client has nothing at its
\* key, and the use fails in the caller with the TypeError of a call of
\* undefined.
C27_AmbiguousEntryIsDropped ==
    (Used /\ Ambiguous(uIn.routeMap.f[uOut.use.key])) =>
        /\ ~Has(uOut.client, uOut.use.key)
        /\ uOut.use.outcome = [kind |-> "throw", error |-> NotAFunction]

----------------------------------------------------------------------------
(* The order of the steps of a call                                        *)

\* The place of each position of a call in the order of the steps.
StepRank ==
    ("params" :> 1) @@ ("query" :> 2) @@ ("body" :> 3) @@ ("headers" :> 4)
    @@ ("prepare" :> 5) @@ ("producer" :> 6) @@ ("fetch" :> 7) @@ ("json" :> 8)
    @@ ("schema" :> 9) @@ ("resolved" :> 10) @@ ("rejected" :> 10)

\* One step of a call in flight: it moves forward in the order; a slot
\* validator that fails ends the call with nothing else invoked, and the
\* producer, the transport and the response validator are invoked at their
\* own positions only.
StepInOrder ==
    IF call = Idle THEN call' # Idle => call'.pc = "params"
    ELSE call' # Idle =>
            /\ StepRank[call.pc] < StepRank[call'.pc]
            /\ call.pc # "rejected"
            /\ (call.pc \in DOMAIN AfterSlot /\ call'.pc = "rejected") =>
                   /\ call'.returned = call.returned
                   /\ call'.requests = <<>>
                   /\ call'.produced = <<>>
            /\ call'.returned # call.returned =>
                   /\ call.pc \in DOMAIN AfterSlot
                   /\ DOMAIN call'.returned = DOMAIN call.returned \cup {call.pc}
            /\ call'.produced # call.produced => call.pc = "producer"
            /\ call'.requests # call.requests => call.pc \in {"prepare", "producer"}
            /\ call'.checked # call.checked => call.pc = "schema"

\* C28: within one call the steps occur in a fixed order: the slot
\* validators one at a time in the order params, query, body, headers, then
\* the header producer, then the transport, then response validation; after
\* the first slot validator that fails, no later slot validator, the header
\* producer and the transport are never invoked in that call.
C28_StepsInFixedOrder == [][StepInOrder]_vars

C28_Witness ==
    /\ Rejected
    /\ call.error = ValidationError("body")
    /\ typeof(Get(call.mergedOptions, "headers")) = "function"
    /\ DOMAIN call.returned = {"params", "query"}
    /\ Has(call.args, "headers")
    /\ call.produced = <<>>
    /\ call.requests = <<>>

----------------------------------------------------------------------------
(* The descriptor handed to the transport                                  *)

\* C29: a call on a body-bearing method whose body is JSON-serialized (an
\* object-shaped or array-shaped value) and whose assembled headers hold no
\* Content-Type dispatches headers with Content-Type application/json.
C29_JsonBodyHasJsonContentType ==
    InFlight =>
        \A i \in 1..Len(call.requests) :
            (/\ AttachesBody(call)
             /\ call.body = JSONstringify(Get(call.processedArgs, "body"))
             /\ "content-type" \notin DOMAIN AssembledHeaders(call)) =>
                LET sent == call.requests[i].init["headers"]
                IN  /\ sent.t = "Headers"
                    /\ "content-type" \in DOMAIN sent.h
                    /\ sent.h["content-type"] = <<"application/json">>

\* C30: the descriptor handed to the transport has the method of the route
\* in upper case and the headers and the body that the pipeline assembled,
\* whatever passthrough options the construction or the call gave.
C30_DescriptorKeepsPipelineFields ==
    InFlight =>
        \A i \in 1..Len(call.requests) :
            LET init == call.requests[i].init
            IN  /\ init["method"] = Str(toUpperCase(call.route.f["method"].s))
                /\ init["headers"] = HeadersValue(call.headers)
                /\ init["body"] = call.body

\* The same of the calls whose passthrough options set none of the three.
C30_PlainDescriptorKeepsPipelineFields ==
    (InFlight /\ PlainPassthrough(call)) =>
        \A i \in 1..Len(call.requests) :
            LET init == call.requests[i].init
            IN  /\ init["method"] = Str(toUpperCase(call.route.f["method"].s))
                /\ init["headers"] = HeadersValue(call.headers)
                /\ init["body"] = call.body

====
